---- MODULE Spec2Model ----
\* Verification model of CSsaan/OpenGL_GLSL:
\*   - the 4x4 matrix utilities (csmatrix_utils.hpp and the plain matrix_utils.h),
\*   - the TrueType text rasterizer wrapper (truetype.hpp).
\* Matrix entries are integers: the operations modelled are exact on them, and
\* cosf/sinf are taken at quarter turns, where the real cosine and sine are
\* -1, 0 or 1 (float rounding of cosf(pi/2) is outside the model).
EXTENDS Integers, Sequences, FiniteSets, TLC

VARIABLES
    variant,    \* which header the driver includes: csmatrix_utils or matrix_utils
    mem,        \* the Matrix objects of the driver: object name -> mat4
    ret,        \* the driver's `int ret`, assigned from status-returning calls
    lastCall,   \* the call just made: operation, arguments, memory before it
    nOps,       \* number of calls made so far
    la,         \* lookAt driver: inputs, normalize statuses, returned matrix
    cmp,        \* composition driver: helper-built and explicitly multiplied matrices
    tt,         \* the TrueType object: phase of its life and its data members
    heap,       \* the buffers the TrueType object allocates
    ctor,       \* the constructor call that built the TrueType object
    obs,        \* the last TrueType call: arguments and what it did
    nRenders    \* processInput calls made so far

mvars == <<variant, mem, ret, lastCall, nOps>>
tvars == <<tt, heap, ctor, obs, nRenders>>

-----------------------------------------------------------------------------
\* Bounds of the exploration

MaxOps == 2        \* calls made on the matrix objects in one run
MaxQuarter == 2    \* rotation angles are 90*k degrees, k in -MaxQuarter..MaxQuarter
MaxCoord == 1      \* lookAt / composition inputs have coordinates in -MaxCoord..MaxCoord
MaxLen == 2        \* characters in a text handed to processInput
MaxRenders == 2    \* processInput calls on one TrueType object

-----------------------------------------------------------------------------
\* csmatrix_utils.hpp status codes

GLMCS_false == -1
GLMCS_not_rotate == 0
GLMCS_ok == 1

NULL == "nullptr"
Idx == 0..3

Objs == {"modelMatrix", "resMatrix"}

\* initIdentityMatrix4x4: diagonal 1, else 0
initIdentityMatrix4x4 == [i \in Idx |-> [j \in Idx |-> IF i = j THEN 1 ELSE 0]]

\* cosf / sinf of a whole number of quarter turns, in degrees
cosDeg(angle) ==
    CASE angle % 360 = 0 -> 1
      [] angle % 360 = 90 -> 0
      [] angle % 360 = 180 -> -1
      [] angle % 360 = 270 -> 0

sinDeg(angle) ==
    CASE angle % 360 = 0 -> 0
      [] angle % 360 = 90 -> 1
      [] angle % 360 = 180 -> 0
      [] angle % 360 = 270 -> -1

\* float b[4][4] literal, row by row
Rows(r0, r1, r2, r3) ==
    [i \in Idx |-> [j \in Idx |-> (<<r0, r1, r2, r3>>[i + 1])[j + 1]]]

\* the inner k loop of matrixMultiply: temp[i][j] = 0; temp[i][j] += a[i][k]*b[k][j]
RECURSIVE accumulate(_, _, _, _, _, _)
accumulate(a, b, i, j, k, acc) ==
    IF k = 4 THEN acc
    ELSE accumulate(a, b, i, j, k + 1, acc + a[i][k] * b[k][j])

\* matrixMultiply of a variant that stores each entry straight into result,
\* without the temp array: entries are read from memory as already written
RECURSIVE multiplyInPlace(_, _, _, _, _)
multiplyInPlace(h, result, matrix, b, c) ==
    IF c = 16 THEN h
    ELSE LET i == c \div 4
             j == c % 4
         IN multiplyInPlace(
                [h EXCEPT ![result][i][j] = accumulate(h[matrix], b, i, j, 0, 0)],
                result, matrix, b, c + 1)

matrixMultiplyNoTemp(h, result, matrix, b, checked) ==
    IF checked /\ (result = NULL \/ matrix = NULL)
    THEN [ret |-> GLMCS_false, mem |-> h]
    ELSE [ret |-> GLMCS_ok, mem |-> multiplyInPlace(h, result, matrix, b, 0)]

\* matrixMultiply(result, matrix, b) on memory h.  `checked` is TRUE for the
\* csmatrix_utils variant (null check, status returned) and FALSE for the plain
\* variant (void, no check; never called with a null pointer here).
matrixMultiply(h, result, matrix, b, checked) ==
    IF checked /\ (result = NULL \/ matrix = NULL)
    THEN [ret |-> GLMCS_false, mem |-> h]
    ELSE LET temp == [i \in Idx |-> [j \in Idx |->
                         accumulate(h[matrix], b, i, j, 0, 0)]]
         IN [ret |-> GLMCS_ok, mem |-> [h EXCEPT ![result] = temp]]

\* the rotation matrices rotate builds for each axis
rotationX(angle) ==
    Rows(<<1, 0, 0, 0>>,
         <<0, cosDeg(angle), sinDeg(angle), 0>>,
         <<0, -sinDeg(angle), cosDeg(angle), 0>>,
         <<0, 0, 0, 1>>)

rotationY(angle) ==
    Rows(<<cosDeg(angle), 0, -sinDeg(angle), 0>>,
         <<0, 1, 0, 0>>,
         <<sinDeg(angle), 0, cosDeg(angle), 0>>,
         <<0, 0, 0, 1>>)

rotationZWrongSign(angle) ==
    Rows(<<cosDeg(angle), -sinDeg(angle), 0, 0>>,
         <<sinDeg(angle), cosDeg(angle), 0, 0>>,
         <<0, 0, 1, 0>>,
         <<0, 0, 0, 1>>)

rotationZ(angle) ==
    Rows(<<cosDeg(angle), sinDeg(angle), 0, 0>>,
         <<-sinDeg(angle), cosDeg(angle), 0, 0>>,
         <<0, 0, 1, 0>>,
         <<0, 0, 0, 1>>)

B2I(b) == IF b THEN 1 ELSE 0

\* rotate that multiplies before looking at the axis count
rotateNoAxisCheck(h, angle, matrix, x, y, z, checked) ==
    LET rot == IF x THEN rotationX(angle)
               ELSE IF y THEN rotationY(angle) ELSE rotationZ(angle)
        mm == matrixMultiply(h, matrix, matrix, rot, checked)
    IN IF B2I(x) + B2I(y) + B2I(z) = 0
       THEN [ret |-> GLMCS_not_rotate, mem |-> mm.mem]
       ELSE IF B2I(x) + B2I(y) + B2I(z) # 1
       THEN [ret |-> GLMCS_false, mem |-> mm.mem]
       ELSE [ret |-> GLMCS_ok, mem |-> mm.mem]

\* rotate(angle, matrix, x, y, z): the status of matrixMultiply is discarded
rotate(h, angle, matrix, x, y, z, checked) ==
    IF B2I(x) + B2I(y) + B2I(z) # 1
    THEN IF B2I(x) + B2I(y) + B2I(z) = 0
         THEN [ret |-> GLMCS_not_rotate, mem |-> h]
         ELSE [ret |-> GLMCS_false, mem |-> h]
    ELSE IF x
    THEN [ret |-> GLMCS_ok,
          mem |-> matrixMultiply(h, matrix, matrix, rotationX(angle), checked).mem]
    ELSE IF y
    THEN [ret |-> GLMCS_ok,
          mem |-> matrixMultiply(h, matrix, matrix, rotationY(angle), checked).mem]
    ELSE [ret |-> GLMCS_ok,
          mem |-> matrixMultiply(h, matrix, matrix, rotationZ(angle), checked).mem]

\* translateMatrix that adds into column 3, as the plain header's does
translateMatrixIntoColumn(h, matrix, x, y, z) ==
    IF matrix = NULL
    THEN [ret |-> GLMCS_false, mem |-> h]
    ELSE [ret |-> GLMCS_ok,
          mem |-> [h EXCEPT ![matrix][0][3] = @ + x,
                            ![matrix][1][3] = @ + y,
                            ![matrix][2][3] = @ + z]]

\* csmatrix_utils translateMatrix: null check, then adds into row 3
translateMatrix(h, matrix, x, y, z) ==
    IF matrix = NULL
    THEN [ret |-> GLMCS_false, mem |-> h]
    ELSE [ret |-> GLMCS_ok,
          mem |-> [h EXCEPT ![matrix][3][0] = @ + x,
                            ![matrix][3][1] = @ + y,
                            ![matrix][3][2] = @ + z]]

\* matrix_utils translateMatrix: void, adds into column 3
translateMatrixPlain(h, matrix, x, y, z) ==
    [h EXCEPT ![matrix][0][3] = @ + x,
              ![matrix][1][3] = @ + y,
              ![matrix][2][3] = @ + z]

\* scaleMatrix (both variants): rows 0..2, columns 0..2, row i times its factor
scaleMatrix(h, matrix, x, y, z) ==
    [h EXCEPT ![matrix][0][0] = @ * x, ![matrix][0][1] = @ * x, ![matrix][0][2] = @ * x,
              ![matrix][1][0] = @ * y, ![matrix][1][1] = @ * y, ![matrix][1][2] = @ * y,
              ![matrix][2][0] = @ * z, ![matrix][2][1] = @ * z, ![matrix][2][2] = @ * z]

-----------------------------------------------------------------------------
\* TrueType (truetype.hpp)

DefaultBitmapW == 512
DefaultBitmapH == 128

\* font files that exist: fopen succeeds on these paths only
FontFiles == {"arial.ttf"}
FontPaths == {"arial.ttf", "missing.ttf"}

\* the declared object: members with their in-class initializers, info not set
Declared ==
    [ttf_dir |-> "/system/bin/fonts/arial.ttf", info |-> "uninitialised",
     bitmap_w |-> DefaultBitmapW, bitmap_h |-> DefaultBitmapH, bitmap |-> NULL]

\* calloc'ed pixels: the bitmap holds 0 wherever px has no entry
Zeroed == [o \in {} |-> 0]

NoBuffers ==
    [fontBuffer |-> [live |-> FALSE, frees |-> 0],
     bitmapBuf |-> [live |-> FALSE, frees |-> 0, size |-> 0, px |-> Zeroed],
     overrun |-> FALSE]

NoCall == [op |-> "none"]

NoTrueType ==
    /\ tt = [phase |-> "declared", self |-> Declared]
    /\ heap = NoBuffers
    /\ ctor = [args |-> 0]
    /\ obs = NoCall
    /\ nRenders = 0

\* init_truetype that allocates the bitmap before it tries the font file
init_truetype_allocFirst(t, h) ==
    LET hb == [h EXCEPT !.bitmapBuf = [live |-> TRUE, frees |-> 0,
                                        size |-> t.bitmap_w * t.bitmap_h, px |-> Zeroed]]
        tb == [t EXCEPT !.bitmap = "bitmapBuf"]
    IN IF t.ttf_dir \notin FontFiles
       THEN [ret |-> 0, self |-> tb, heap |-> hb]
       ELSE [ret |-> 1, self |-> [tb EXCEPT !.info = "font"],
             heap |-> [hb EXCEPT !.fontBuffer = [live |-> TRUE, frees |-> 0]]]

\* init_truetype: returns 0 when the font file cannot be opened; otherwise
\* reads it into a calloc'ed fontBuffer (a local pointer, kept only inside
\* info), initialises info and callocs the bitmap
init_truetype(t, h) ==
    IF t.ttf_dir \notin FontFiles
    THEN [ret |-> 0, self |-> t, heap |-> h]
    ELSE [ret |-> 1,
          self |-> [t EXCEPT !.info = "font", !.bitmap = "bitmapBuf"],
          heap |-> [h EXCEPT !.fontBuffer = [live |-> TRUE, frees |-> 0],
                             !.bitmapBuf = [live |-> TRUE, frees |-> 0,
                                            size |-> t.bitmap_w * t.bitmap_h,
                                            px |-> Zeroed]]]

\* resetBitmap that reports but does not clear
resetBitmapNoFill(t, h) == h

\* resetBitmap: fill_n(bitmap, bitmap_w * bitmap_h, 0) unless bitmap is null
resetBitmap(t, h) ==
    IF t.bitmap # NULL
    THEN [h EXCEPT !.bitmapBuf.px = Zeroed]
    ELSE h

\* stringToHex: pushes input[i] for i = 0 .. length-1
RECURSIVE stringToHex(_, _, _)
stringToHex(input, i, word) ==
    IF i > Len(input) THEN word
    ELSE stringToHex(input, i + 1, Append(word, input[i]))

\* ---- the font library (stb_truetype), for a two-glyph font ----

FontAscent == 1
FontDescent == -1

CharA == 65
CharG == 103
Chars == {CharA, CharG}

\* horizontal metrics and outline box of a code point, in font units
Glyph(ch) ==
    CASE ch = CharA -> [advance |-> 2, lsb |-> 0, x0 |-> 0, y0 |-> 0, x1 |-> 1, y1 |-> 1]
      [] ch = CharG -> [advance |-> 1, lsb |-> 0, x0 |-> 0, y0 |-> -1, x1 |-> 1, y1 |-> 0]
      [] OTHER -> [advance |-> 0, lsb |-> 0, x0 |-> 0, y0 |-> 0, x1 |-> 0, y1 |-> 0]

\* stbtt_ScaleForPixelHeight: pixels / (ascent - descent)
stbtt_ScaleForPixelHeight(pixels) == pixels \div (FontAscent - FontDescent)

\* stbtt_GetCodepointBitmapBox: the outline box scaled, y flipped
stbtt_GetCodepointBitmapBox(ch, scale) ==
    [c_x1 |-> Glyph(ch).x0 * scale, c_y1 |-> (-Glyph(ch).y1) * scale,
     c_x2 |-> Glyph(ch).x1 * scale, c_y2 |-> (-Glyph(ch).y0) * scale]

\* stbtt_GetCodepointKernAdvance
stbtt_GetCodepointKernAdvance(ch1, ch2) ==
    IF ch1 = CharA /\ ch2 = CharG THEN -1 ELSE 0

\* coverage the rasterizer stores at row r, column c of a glyph's box
Coverage(ch, r, c) ==
    IF ch = CharA THEN 255 ELSE IF r = 0 /\ c = 0 THEN 0 ELSE 128

\* stbtt_MakeCodepointBitmap(output = bitmap + byteOffset, out_w, out_h,
\* out_stride = bitmap_w): stores every pixel of the out_w x out_h box; a store
\* outside the buffer overruns it
stbtt_MakeCodepointBitmap(buf, byteOffset, out_w, out_h, out_stride, ch) ==
    LET cells == {<<r, c>> : r \in 0..(out_h - 1), c \in 0..(out_w - 1)}
        At(rc) == byteOffset + rc[1] * out_stride + rc[2]
        inside == {rc \in cells : At(rc) >= 0 /\ At(rc) < buf.size}
        stored == {At(rc) : rc \in inside}
        lit == {At(rc) : rc \in {q \in inside : Coverage(ch, q[1], q[2]) # 0}}
        CellAt(o) == CHOOSE rc \in inside : At(rc) = o
    IN [buf |-> [buf EXCEPT !.px =
                    [o \in ((DOMAIN buf.px) \ stored) \cup lit |->
                        IF o \in stored
                        THEN Coverage(ch, CellAt(o)[1], CellAt(o)[2])
                        ELSE buf.px[o]]],
        overrun |-> inside # cells]

\* ---- ttf2picture ----

\* word[i] for a vector of Len(word) chars, i counted from 0; `past` is the
\* value found one past the last element
WordAt(word, i, past) == IF i < Len(word) THEN word[i + 1] ELSE past

\* the for loop of ttf2picture from index i on, with the cursor at x
RECURSIVE glyphLoop(_, _, _, _, _, _, _, _)
glyphLoop(t, h, word, past, scale, ascent, i, st) ==
    IF ~(i < Len(word)) THEN st
    ELSE LET ch == WordAt(word, i, past)
             g == Glyph(ch)
             box == stbtt_GetCodepointBitmapBox(ch, scale)
             y == ascent + box.c_y1
             byteOffset == st.x + g.lsb * scale + y * t.bitmap_w
             made == stbtt_MakeCodepointBitmap(st.buf, byteOffset,
                         box.c_x2 - box.c_x1, box.c_y2 - box.c_y1, t.bitmap_w, ch)
             kern == stbtt_GetCodepointKernAdvance(ch, WordAt(word, i + 1, past))
         IN glyphLoop(t, h, word, past, scale, ascent, i + 1,
                [x |-> st.x + g.advance * scale + kern * scale,
                 buf |-> made.buf,
                 overrun |-> st.overrun \/ made.overrun,
                 reads |-> st.reads \cup {i, i + 1}])

\* ttf2picture(word, pixels) on an object whose bitmap and info are set
ttf2picture(t, h, word, pixels, past) ==
    LET h0 == resetBitmap(t, h)
        scale == stbtt_ScaleForPixelHeight(pixels)
        ascent == FontAscent * scale
        done == glyphLoop(t, h0, word, past, scale, ascent, 0,
                    [x |-> 0, buf |-> h0.bitmapBuf, overrun |-> FALSE, reads |-> {}])
    IN [ret |-> IF done.x = 0 THEN 0 ELSE 1,
        x |-> done.x,
        reads |-> done.reads,
        heap |-> [h0 EXCEPT !.bitmapBuf = done.buf,
                            !.overrun = @ \/ done.overrun]]

\* ---- the driver of a TrueType object ----

\* bitmap sizes handed to the three-argument constructor
BitmapSizes == {<<4, 2>>, <<6, 4>>}

\* pixel heights handed to processInput
PixelHeights == {2, 4}

Texts == UNION {[1..n -> Chars] : n \in 0..MaxLen}

\* TrueType(ttf_dir)
Construct1 ==
    /\ tt.phase = "declared"
    /\ \E dir \in FontPaths :
        LET r == init_truetype([tt.self EXCEPT !.ttf_dir = dir], heap)
        IN /\ tt' = [phase |-> "constructed", self |-> r.self]
           /\ heap' = r.heap
           /\ ctor' = [args |-> 1, ttf_dir |-> dir,
                       bitmap_w |-> DefaultBitmapW, bitmap_h |-> DefaultBitmapH]
    /\ UNCHANGED <<mvars, la, cmp, obs, nRenders>>

\* TrueType(bitmap_w, bitmap_h, ttf_dir)
Construct3 ==
    /\ tt.phase = "declared"
    /\ \E dir \in FontPaths, wh \in BitmapSizes :
        LET r == init_truetype([tt.self EXCEPT !.bitmap_w = wh[1], !.bitmap_h = wh[2],
                                               !.ttf_dir = dir], heap)
        IN /\ tt' = [phase |-> "constructed", self |-> r.self]
           /\ heap' = r.heap
           /\ ctor' = [args |-> 3, ttf_dir |-> dir, bitmap_w |-> wh[1], bitmap_h |-> wh[2]]
    /\ UNCHANGED <<mvars, la, cmp, obs, nRenders>>

\* ttf2picture(word, pixels) on an object whose bitmap is null: resetBitmap
\* prints and returns nothing, and ttf2picture has no return before its loop,
\* so it reads info (stbtt_ScaleForPixelHeight, stbtt_GetFontVMetrics) and
\* calls the rasterizer on bitmap + byteOffset once per character
ttf2pictureNullBitmap(t, h, word) ==
    [heap |-> resetBitmap(t, h),
     uninitInfo |-> t.info = "uninitialised",
     glyphCalls |-> Len(word),
     reads |-> UNION {{i, i + 1} : i \in 0..(Len(word) - 1)}]

\* processInput(input, pixels).  On an object whose font file did not open
\* the reads of the uninitialised info and the stores through the null bitmap
\* are undefined: the run may die at any of them, or get through them all.
ProcessInput ==
    /\ tt.phase = "constructed"
    /\ nRenders < MaxRenders
    /\ \E input \in Texts, pixels \in PixelHeights, past \in Chars \cup {0} :
        LET word == stringToHex(input, 1, <<>>)
        IN IF tt.self.bitmap # NULL
           THEN LET r == ttf2picture(tt.self, heap, word, pixels, past)
                IN /\ heap' = r.heap
                   /\ tt' = tt
                   /\ obs' = [op |-> "processInput", input |-> input, pixels |-> pixels,
                              before |-> heap.bitmapBuf.px, n |-> Len(word), reads |-> r.reads, x |-> r.x,
                              ret |-> r.ret, uninitInfo |-> FALSE, nullWrites |-> 0]
           ELSE LET r == ttf2pictureNullBitmap(tt.self, heap, word)
                IN \E dies \in BOOLEAN, done \in 0..r.glyphCalls :
                    /\ ~dies => done = r.glyphCalls
                    /\ heap' = r.heap
                    /\ tt' = [tt EXCEPT !.phase = IF dies THEN "crashed" ELSE @]
                    /\ obs' = [op |-> "processInput", input |-> input, pixels |-> pixels,
                               before |-> heap.bitmapBuf.px, n |-> Len(word),
                               reads |-> r.reads, x |-> 0, ret |-> 0,
                               uninitInfo |-> r.uninitInfo, nullWrites |-> done]
    /\ nRenders' = nRenders + 1
    /\ UNCHANGED <<mvars, la, cmp, ctor>>

\* getBitmapWH(&w, &h)
GetBitmapWH ==
    /\ tt.phase = "constructed"
    /\ obs' = [op |-> "getBitmapWH", w |-> tt.self.bitmap_w, h |-> tt.self.bitmap_h]
    /\ UNCHANGED <<mvars, la, cmp, tt, heap, ctor, nRenders>>

\* ~TrueType(): frees bitmap when it is not null, and nothing else
Destroy ==
    /\ tt.phase = "constructed"
    /\ tt' = [tt EXCEPT !.phase = "destroyed"]
    /\ heap' = IF tt.self.bitmap # NULL
               THEN [heap EXCEPT !.bitmapBuf.live = FALSE, !.bitmapBuf.frees = @ + 1]
               ELSE heap
    /\ obs' = [op |-> "~TrueType"]
    /\ UNCHANGED <<mvars, la, cmp, ctor, nRenders>>

-----------------------------------------------------------------------------
\* The driver of the matrix utilities (as in the example main: identity, then calls)

Angles == {90 * q : q \in -MaxQuarter..MaxQuarter}

\* argument triples the driver passes to translateMatrix and scaleMatrix
TransArgs == {<<4, 5, 6>>, <<-1, 0, 2>>}
ScaleArgs == {<<2, 2, 2>>, <<-1, 3, 1>>}

\* right operands the driver passes to matrixMultiply
BMats ==
    {Rows(<<1, 2, 3, 4>>, <<5, 6, 7, 8>>, <<9, 10, 11, 12>>, <<13, 14, 15, 16>>),
     Rows(<<0, 1, 0, 0>>, <<-1, 0, 2, 0>>, <<0, 0, 1, 0>>, <<3, 0, -2, 1>>)}

NoArgs == <<0, 0, 0>>
NoAxes == <<FALSE, FALSE, FALSE>>

Call(op, result, matrix, angle, axes, v, b) ==
    [op |-> op, result |-> result, matrix |-> matrix, angle |-> angle,
     axes |-> axes, v |-> v, b |-> b, pre |-> mem]

IsCS == variant = "csmatrix_utils"

\* pointers a call may be given: the plain variant has no null checks, so the
\* driver only hands it live objects
Ptrs == IF IsCS THEN {"modelMatrix", NULL} ELSE {"modelMatrix"}

\* the matrix driver's objects after initIdentityMatrix4x4, for either header
MatrixStart(variants) ==
    /\ variant \in variants
    /\ mem = [o \in Objs |-> initIdentityMatrix4x4]
    /\ ret = 0
    /\ lastCall = Call("init", NULL, NULL, 0, NoAxes, NoArgs, initIdentityMatrix4x4)
    /\ nOps = 0
    /\ NoTrueType

InitMatrix ==
    /\ MatrixStart({"csmatrix_utils", "matrix_utils"})
    /\ la = [phase |-> "idle"]
    /\ cmp = [phase |-> "idle"]

Translate ==
    /\ nOps < MaxOps
    /\ \E p \in Ptrs, v \in TransArgs :
        /\ lastCall' = Call("translateMatrix", NULL, p, 0, NoAxes, v, initIdentityMatrix4x4)
        /\ IF IsCS
           THEN LET r == translateMatrix(mem, p, v[1], v[2], v[3])
                IN mem' = r.mem /\ ret' = r.ret
           ELSE mem' = translateMatrixPlain(mem, p, v[1], v[2], v[3]) /\ ret' = ret
    /\ nOps' = nOps + 1
    /\ UNCHANGED <<variant, la, cmp, tvars>>

Scale ==
    /\ nOps < MaxOps
    /\ \E v \in ScaleArgs :
        /\ lastCall' = Call("scaleMatrix", NULL, "modelMatrix", 0, NoAxes, v,
                            initIdentityMatrix4x4)
        /\ mem' = scaleMatrix(mem, "modelMatrix", v[1], v[2], v[3])
    /\ nOps' = nOps + 1
    /\ UNCHANGED <<variant, ret, la, cmp, tvars>>

Rotate ==
    /\ nOps < MaxOps
    /\ \E p \in Ptrs, angle \in Angles, x \in BOOLEAN, y \in BOOLEAN, z \in BOOLEAN :
        LET r == rotate(mem, angle, p, x, y, z, IsCS)
        IN /\ lastCall' = Call("rotate", NULL, p, angle, <<x, y, z>>, NoArgs,
                               initIdentityMatrix4x4)
           /\ mem' = r.mem
           /\ ret' = r.ret
    /\ nOps' = nOps + 1
    /\ UNCHANGED <<variant, la, cmp, tvars>>

Multiply ==
    /\ nOps < MaxOps
    /\ \E result \in Ptrs \cup {"resMatrix"}, matrix \in Ptrs, b \in BMats :
        LET r == matrixMultiply(mem, result, matrix, b, IsCS)
        IN /\ lastCall' = Call("matrixMultiply", result, matrix, 0, NoAxes, NoArgs, b)
           /\ mem' = r.mem
           /\ ret' = IF IsCS THEN r.ret ELSE ret
    /\ nOps' = nOps + 1
    /\ UNCHANGED <<variant, la, cmp, tvars>>

NextMatrix == Translate \/ Scale \/ Rotate \/ Multiply

vars == <<variant, mem, ret, lastCall, nOps, la, cmp, tt, heap, ctor, obs, nRenders>>

SpecMatrix == InitMatrix /\ [][NextMatrix]_vars

\* a csmatrix_utils driver that only translates, scales and rotates
InitAffine ==
    /\ MatrixStart({"csmatrix_utils"})
    /\ la = [phase |-> "idle"]
    /\ cmp = [phase |-> "idle"]

NextAffine == Translate \/ Scale \/ Rotate

SpecAffine == InitAffine /\ [][NextAffine]_vars

-----------------------------------------------------------------------------
\* lookAt and its vector helpers (csmatrix_utils.hpp)

vec3(x, y, z) == [x |-> x, y |-> y, z |-> z]

\* sqrt on the sums of squares the driver produces (vectors along one axis)
Sqrt(s) == CHOOSE n \in 0..s : n * n = s

\* normalize(v): GLMCS_false and v untouched when the length is 0
normalize(v) ==
    LET length == Sqrt(v.x * v.x + v.y * v.y + v.z * v.z)
    IN IF 0 = length
       THEN [ret |-> GLMCS_false, v |-> v]
       ELSE [ret |-> GLMCS_ok,
             v |-> vec3(v.x \div length, v.y \div length, v.z \div length)]

cross(v1, v2) ==
    vec3(v1.y * v2.z - v1.z * v2.y,
         v1.z * v2.x - v1.x * v2.z,
         v1.x * v2.y - v1.y * v2.x)

dot(v1, v2) == v1.x * v2.x + v1.y * v2.y + v1.z * v2.z

subtract(v1, v2) == vec3(v1.x - v2.x, v1.y - v2.y, v1.z - v2.z)

\* the three normalize calls of lookAt, with the statuses lookAt discards
lookAtVectors(eye, target, up) ==
    LET n1 == normalize(subtract(target, eye))
        n2 == normalize(cross(n1.v, up))
        n3 == normalize(cross(n2.v, n1.v))
    IN [forward |-> n1.v, right |-> n2.v, upVec |-> n3.v,
        normalized |-> <<n1.ret, n2.ret, n3.ret>>]

\* lookAt(eye, target, up): its single return statement hands the caller a
\* Matrix; `signal` is the status the caller receives, and there is no path on
\* which it is anything but success
lookAt(eye, target, up) ==
    LET w == lookAtVectors(eye, target, up)
    IN [signal |-> GLMCS_ok,
        mat4 |-> Rows(<<w.right.x, w.upVec.x, -w.forward.x, 0>>,
                      <<w.right.y, w.upVec.y, -w.forward.y, 0>>,
                      <<w.right.z, w.upVec.z, -w.forward.z, 0>>,
                      <<-dot(w.right, eye), -dot(w.upVec, eye), dot(w.forward, eye), 1>>)]

Coords == -MaxCoord..MaxCoord
Cube == {vec3(x, y, z) : x \in Coords, y \in Coords, z \in Coords}

\* vectors along one axis (or zero): their lengths are whole numbers
OnAxis(v) == B2I(v.x # 0) + B2I(v.y # 0) + B2I(v.z # 0) <= 1

InitLookAt ==
    /\ MatrixStart({"csmatrix_utils"})
    /\ cmp = [phase |-> "idle"]
    /\ \E eye \in Cube, target \in Cube, up \in Cube :
        /\ OnAxis(subtract(target, eye))
        /\ OnAxis(up)
        /\ la = [phase |-> "called", eye |-> eye, target |-> target, up |-> up]

LookAt ==
    /\ la.phase = "called"
    /\ la' = [phase |-> "returned", eye |-> la.eye, target |-> la.target, up |-> la.up,
              normalized |-> lookAtVectors(la.eye, la.target, la.up).normalized,
              out |-> lookAt(la.eye, la.target, la.up)]
    /\ UNCHANGED <<mvars, cmp, tvars>>

SpecLookAt == InitLookAt /\ [][LookAt]_vars

\* one of the vectors lookAt normalizes has zero length
ZeroLengthInput ==
    LET forward == subtract(la.target, la.eye)
    IN \/ forward = vec3(0, 0, 0)
       \/ cross(forward, la.up) = vec3(0, 0, 0)

\* C3: lookAt fails with a caller-visible zero-division signal whenever a
\* vector it normalizes has zero length (target = eye, up zero or parallel to
\* forward), instead of returning a matrix as a successful call does.
C3_LookAtSignalsZeroLength ==
    (la.phase = "returned" /\ ZeroLengthInput) => la.out.signal = GLMCS_false

\* what the code does keep: normalize itself detects every zero length
C3_NormalizeDetects ==
    la.phase = "returned" =>
        (ZeroLengthInput <=> GLMCS_false \in {la.normalized[n] : n \in 1..3})

-----------------------------------------------------------------------------
\* Composition driver: the same transforms through the mutation helpers on one
\* matrix and through explicit matrixMultiply on another (csmatrix_utils)

CmpObjs == {"helperMatrix", "explicitMatrix"}

\* diag(sx, sy, sz, 1)
ScaleMat(v) ==
    Rows(<<v[1], 0, 0, 0>>, <<0, v[2], 0, 0>>, <<0, 0, v[3], 0>>, <<0, 0, 0, 1>>)

\* identity with (tx, ty, tz) in the translation row
TranslationMat(v) ==
    Rows(<<1, 0, 0, 0>>, <<0, 1, 0, 0>>, <<0, 0, 1, 0>>, <<v[1], v[2], v[3], 1>>)

Triples == {<<x, y, z>> : x \in Coords, y \in Coords, z \in Coords}

InitCompose ==
    /\ MatrixStart({"csmatrix_utils"})
    /\ la = [phase |-> "idle"]
    /\ cmp = [phase |-> "run", ops |-> <<>>, args |-> <<>>,
              mem |-> [o \in CmpObjs |-> initIdentityMatrix4x4]]

ComposeScale ==
    /\ cmp.phase = "run"
    /\ \A n \in 1..Len(cmp.ops) : cmp.ops[n] # "scale"
    /\ \E v \in Triples :
        LET h1 == scaleMatrix(cmp.mem, "helperMatrix", v[1], v[2], v[3])
            h2 == matrixMultiply(h1, "explicitMatrix", "explicitMatrix", ScaleMat(v), TRUE).mem
        IN cmp' = [cmp EXCEPT !.ops = Append(@, "scale"), !.args = Append(@, v), !.mem = h2]
    /\ UNCHANGED <<mvars, la, tvars>>

ComposeTranslate ==
    /\ cmp.phase = "run"
    /\ \A n \in 1..Len(cmp.ops) : cmp.ops[n] # "translate"
    /\ \E v \in Triples :
        LET h1 == translateMatrix(cmp.mem, "helperMatrix", v[1], v[2], v[3]).mem
            h2 == matrixMultiply(h1, "explicitMatrix", "explicitMatrix",
                                 TranslationMat(v), TRUE).mem
        IN cmp' = [cmp EXCEPT !.ops = Append(@, "translate"), !.args = Append(@, v), !.mem = h2]
    /\ UNCHANGED <<mvars, la, tvars>>

NextCompose == ComposeScale \/ ComposeTranslate

SpecCompose == InitCompose /\ [][NextCompose]_vars

\* C5: from the identity, scale then translate, and translate then scale,
\* through the helpers give exactly the matrix the same transforms give through
\* matrixMultiply (current matrix times diag(sx,sy,sz,1), current matrix times
\* the translation matrix).
C5_HelpersMatchMultiply ==
    Len(cmp.ops) = 2 => cmp.mem["helperMatrix"] = cmp.mem["explicitMatrix"]

\* the order in which the helpers do agree with the explicit products
C5_ScaleThenTranslate ==
    (Len(cmp.ops) >= 1 /\ cmp.ops[1] = "scale") =>
        cmp.mem["helperMatrix"] = cmp.mem["explicitMatrix"]

NextTrueType == Construct1 \/ Construct3 \/ ProcessInput \/ GetBitmapWH \/ Destroy

InitTrueType ==
    /\ MatrixStart({"csmatrix_utils"})
    /\ la = [phase |-> "idle"]
    /\ cmp = [phase |-> "idle"]

SpecTrueType == InitTrueType /\ [][NextTrueType]_vars

-----------------------------------------------------------------------------
\* Properties of the matrix driver

Axes(c) == B2I(c.axes[1]) + B2I(c.axes[2]) + B2I(c.axes[3])

\* C1: rotate with zero axis flags returns GLMCS_not_rotate, with two or three
\* flags GLMCS_false, and in both cases every entry of every matrix is as it was
\* before the call; in the csmatrix_utils and in the plain matrix_utils variant.
C1_RotateBadAxes ==
    (lastCall.op = "rotate" /\ Axes(lastCall) # 1) =>
        /\ ret = (IF Axes(lastCall) = 0 THEN GLMCS_not_rotate ELSE GLMCS_false)
        /\ \A o \in Objs : \A i \in Idx : \A j \in Idx :
               mem[o][i][j] = lastCall.pre[o][i][j]

\* a two-flag rotate by 90 degrees on a matrix that is no longer the identity,
\* in the plain variant
C1_Witness ==
    /\ lastCall.op = "rotate"
    /\ Axes(lastCall) = 2
    /\ lastCall.angle = 90
    /\ lastCall.matrix = "modelMatrix"
    /\ variant = "matrix_utils"
    /\ lastCall.pre["modelMatrix"] # initIdentityMatrix4x4

\* the textbook product entry: sum over k of A[i][k] * B[k][j]
ProductEntry(A, B, i, j) ==
    A[i][0] * B[0][j] + A[i][1] * B[1][j] + A[i][2] * B[2][j] + A[i][3] * B[3][j]

\* C2: matrixMultiply(result, A, B) leaves result[i][j] = sum_k A[i][k]*B[k][j],
\* A being the first operand's value before the call, also when result is the
\* first operand itself.
C2_MultiplyIsProduct ==
    (lastCall.op = "matrixMultiply" /\ lastCall.result # NULL /\ lastCall.matrix # NULL) =>
        \A i \in Idx : \A j \in Idx :
            mem[lastCall.result][i][j] =
                ProductEntry(lastCall.pre[lastCall.matrix], lastCall.b, i, j)

\* an aliased call (result is the first operand) on a matrix changed by an earlier call
C2_Witness ==
    /\ lastCall.op = "matrixMultiply"
    /\ lastCall.result = "modelMatrix"
    /\ lastCall.matrix = "modelMatrix"
    /\ lastCall.pre["modelMatrix"] # initIdentityMatrix4x4
    /\ mem["modelMatrix"] # lastCall.pre["modelMatrix"]

\* a status-returning csmatrix_utils call that was handed a null matrix
NullCall ==
    /\ IsCS
    /\ \/ lastCall.op = "translateMatrix" /\ lastCall.matrix = NULL
       \/ lastCall.op = "matrixMultiply"
            /\ (lastCall.result = NULL \/ lastCall.matrix = NULL)
       \/ lastCall.op = "rotate" /\ lastCall.matrix = NULL /\ Axes(lastCall) = 1

\* C4: in csmatrix_utils every status-returning operation called with a null
\* matrix returns a status other than GLMCS_ok and modifies no matrix.
C4_NullReportsNotOk ==
    NullCall => (ret # GLMCS_ok /\ mem = lastCall.pre)

\* the part of C4 the code keeps: a null matrix never changes any matrix, and
\* translateMatrix and matrixMultiply report GLMCS_false
C4_NullLeavesMemory ==
    NullCall => /\ mem = lastCall.pre
                /\ lastCall.op # "rotate" => ret = GLMCS_false

\* closed-form right-handed rotations acting on column vectors (v' = R v)
StdRotation(axis, angle) ==
    LET c == cosDeg(angle)
        s == sinDeg(angle)
    IN CASE axis = 1 -> Rows(<<1, 0, 0, 0>>, <<0, c, -s, 0>>, <<0, s, c, 0>>, <<0, 0, 0, 1>>)
         [] axis = 2 -> Rows(<<c, 0, s, 0>>, <<0, 1, 0, 0>>, <<-s, 0, c, 0>>, <<0, 0, 0, 1>>)
         [] axis = 3 -> Rows(<<c, -s, 0, 0>>, <<s, c, 0, 0>>, <<0, 0, 1, 0>>, <<0, 0, 0, 1>>)

Transpose(M) == [i \in Idx |-> [j \in Idx |-> M[j][i]]]

AxisOf(c) == IF c.axes[1] THEN 1 ELSE IF c.axes[2] THEN 2 ELSE 3

\* a single-axis rotate of the identity matrix
RotateOfIdentity ==
    /\ lastCall.op = "rotate"
    /\ lastCall.matrix = "modelMatrix"
    /\ Axes(lastCall) = 1
    /\ lastCall.pre["modelMatrix"] = initIdentityMatrix4x4

Column(M, j) == <<M[0][j], M[1][j], M[2][j], M[3][j]>>
Row(M, i) == <<M[i][0], M[i][1], M[i][2], M[i][3]>>

\* C6 as stated: rotate(angle, identity, axis) returns ok and leaves the
\* closed-form rotation matrix; after rotate(90, identity, z) the first column
\* of the matrix is (0,1,0,0).
C6_RotateClosedFormColumns ==
    RotateOfIdentity =>
        /\ ret = GLMCS_ok
        /\ mem["modelMatrix"] = StdRotation(AxisOf(lastCall), lastCall.angle)
        /\ (AxisOf(lastCall) = 3 /\ lastCall.angle = 90) =>
               Column(mem["modelMatrix"], 0) = <<0, 1, 0, 0>>

\* C6 amended: rotate(angle, identity, axis) returns ok and leaves the transpose
\* of the closed-form rotation matrix (the rotation written for row vectors,
\* v' = v M, the convention that keeps translation in the last row); after
\* rotate(90, identity, z) the first row is (0,1,0,0) and the first column is
\* (0,-1,0,0).
C6_RotateClosedFormRows ==
    RotateOfIdentity =>
        /\ ret = GLMCS_ok
        /\ mem["modelMatrix"] = Transpose(StdRotation(AxisOf(lastCall), lastCall.angle))
        /\ (AxisOf(lastCall) = 3 /\ lastCall.angle = 90) =>
               /\ Row(mem["modelMatrix"], 0) = <<0, 1, 0, 0>>
               /\ Column(mem["modelMatrix"], 0) = <<0, -1, 0, 0>>

\* rotate(90, identity, z) has been made
C6_Witness ==
    /\ RotateOfIdentity
    /\ AxisOf(lastCall) = 3
    /\ lastCall.angle = 90
    /\ ret = GLMCS_ok

-----------------------------------------------------------------------------
\* Properties of the TrueType object

Built == tt.phase \in {"constructed", "crashed", "destroyed"}

\* C7: a TrueType object built (by either constructor) on a font path that
\* cannot be opened has bitmap null after construction and until a render is
\* attempted; getBitmapWH on it returns the configured width and height
\* (512 x 128 for the one-argument constructor) and touches no buffer;
\* destroying it frees nothing.
C7_FailedOpenKeepsBitmapNull ==
    (Built /\ ctor.ttf_dir \notin FontFiles /\ nRenders = 0) =>
        /\ tt.self.bitmap = NULL
        /\ heap = NoBuffers
        /\ obs.op = "getBitmapWH" =>
               /\ obs.w = ctor.bitmap_w /\ obs.h = ctor.bitmap_h
               /\ ctor.args = 1 => (obs.w = 512 /\ obs.h = 128)

\* getBitmapWH answered on a one-argument object whose font file did not open
C7_Witness ==
    /\ tt.phase = "constructed"
    /\ ctor.args = 1
    /\ ctor.ttf_dir = "missing.ttf"
    /\ nRenders = 0
    /\ obs.op = "getBitmapWH"
    /\ obs.w = 512 /\ obs.h = 128
    /\ tt.self.bitmap = NULL

\* the bitmap one processInput(input, pixels) leaves on a newly built object
FreshRender(c, input, pixels) ==
    LET made == init_truetype([Declared EXCEPT !.ttf_dir = c.ttf_dir,
                                               !.bitmap_w = c.bitmap_w,
                                               !.bitmap_h = c.bitmap_h], NoBuffers)
    IN ttf2picture(made.self, made.heap, stringToHex(input, 1, <<>>), pixels, 0)
           .heap.bitmapBuf.px

\* C8: on a successfully built object, after any sequence of processInput
\* calls whose glyphs all fit inside the bitmap, the bitmap equals the one the
\* last call alone leaves on a newly built object.
C8_RenderOverwrites ==
    (obs.op = "processInput" /\ tt.self.bitmap # NULL /\ ~heap.overrun) =>
        heap.bitmapBuf.px = FreshRender(ctor, obs.input, obs.pixels)

\* a second render that fits, after a render that lit a pixel the second one
\* leaves dark
C8_Witness ==
    /\ obs.op = "processInput"
    /\ tt.self.bitmap # NULL
    /\ ~heap.overrun
    /\ nRenders = 2
    /\ heap.bitmapBuf.px # Zeroed
    /\ \E o \in DOMAIN obs.before : o \notin DOMAIN heap.bitmapBuf.px

\* C9: after a successful construction, any number of processInput calls and
\* destruction, neither the font data buffer nor the bitmap remains allocated,
\* and each has been freed exactly once.
C9_BuffersReleased ==
    (tt.phase = "destroyed" /\ ctor.ttf_dir \in FontFiles) =>
        /\ ~heap.fontBuffer.live /\ heap.fontBuffer.frees = 1
        /\ ~heap.bitmapBuf.live /\ heap.bitmapBuf.frees = 1

\* the part of C9 the destructor does: the bitmap is freed exactly once
C9_BitmapReleased ==
    (tt.phase = "destroyed" /\ ctor.ttf_dir \in FontFiles) =>
        (~heap.bitmapBuf.live /\ heap.bitmapBuf.frees = 1)

\* C10: while rendering a text of n characters every index used to read the
\* character sequence, the kerning lookup's next character included, lies in
\* 0..n-1.
C10_ReadsInsideWord ==
    (obs.op = "processInput" /\ tt.self.bitmap # NULL) =>
        \A i \in obs.reads : 0 <= i /\ i <= obs.n - 1

\* what does hold: the indices read are 0..n for n >= 1, none for n = 0
C10_ReadsUpToN ==
    (obs.op = "processInput" /\ tt.self.bitmap # NULL) =>
        obs.reads = (IF obs.n = 0 THEN {} ELSE 0..obs.n)

-----------------------------------------------------------------------------
\* Properties of the translate / scale / rotate driver

\* C11: in csmatrix_utils, after initIdentityMatrix4x4 and any sequence of
\* translateMatrix, scaleMatrix and rotate calls (invalid axis selections
\* included), the fourth column of the matrix is (0, 0, 0, 1).
C11_FourthColumnKept ==
    /\ mem["modelMatrix"][0][3] = 0
    /\ mem["modelMatrix"][1][3] = 0
    /\ mem["modelMatrix"][2][3] = 0
    /\ mem["modelMatrix"][3][3] = 1

\* a quarter-turn rotate has just acted on a matrix that an earlier call had
\* already changed, and it moved entries of the matrix
C11_Witness ==
    /\ nOps = MaxOps
    /\ lastCall.op = "rotate"
    /\ lastCall.matrix = "modelMatrix"
    /\ Axes(lastCall) = 1
    /\ lastCall.angle = 90
    /\ lastCall.pre["modelMatrix"][3][0] # 0
    /\ mem["modelMatrix"] # lastCall.pre["modelMatrix"]
    /\ C11_FourthColumnKept

-----------------------------------------------------------------------------
\* Properties of a TrueType object whose font file did not open

\* processInput has been called on an object built on an unopenable font path
RenderOnFailedObject ==
    /\ obs.op = "processInput"
    /\ ctor.ttf_dir \notin FontFiles
    /\ tt.self.bitmap = NULL

\* C12: on a TrueType object whose construction failed to open the font file,
\* processInput performs no glyph write: once resetBitmap has found the bitmap
\* null the render neither rasterizes into an address derived from the null
\* pointer nor uses the uninitialised font info.
C12_NoRenderOnNullBitmap ==
    RenderOnFailedObject => (obs.nullWrites = 0 /\ ~obs.uninitInfo)

\* what the code does there: info is read uninitialised on every such call,
\* and a call that gets through has handed the null-based address to the
\* rasterizer once per character
C12_NullBitmapIsRendered ==
    RenderOnFailedObject =>
        /\ obs.uninitInfo
        /\ tt.phase = "constructed" => obs.nullWrites = obs.n

====
